---------------------------- MODULE Spec2Model ----------------------------
(***************************************************************************)
(* Model of the daily_journal application.                                 *)
(*                                                                         *)
(*   repository.py  the Entries repository over one SQLite table           *)
(*   model.py       the Day and Month entities                             *)
(*   controller.py  the Controller's focus date and calendar matrix        *)
(*                                                                         *)
(* Strings that the code compares or converts are sequences of character   *)
(* codes: the ISO form of a date is the sequence of its ten characters,    *)
(* an entry text is a sequence of Unicode code points, and a stored entry  *)
(* is the sequence of its UTF-8 bytes.                                     *)
(*                                                                         *)
(* Every query names the table "entries": the INSERT and the index do so   *)
(* literally, and init_entries_table raises (so no Entries object exists)  *)
(* unless CREATE TABLE {ENTRIES_TABLE} made a table the index statement    *)
(* finds under that name.                                                  *)
(***************************************************************************)
EXTENDS Integers, Sequences, FiniteSets, TLC

VARIABLES
    schema,           \* which schema objects exist in the database
    rows,             \* committed rows of the entries table, in rowid order
    last,             \* the most recent repository call and its outcome
    prev,             \* summary of the repository call before it
    today,            \* the calendar day the system clock shows
    default_date,     \* default of set_focus_date_and_month's date parameter
    focus_date,       \* Controller._focus_date
    calendar_matrix,  \* Controller.calendar_matrix
    month,            \* the Month object constructed most recently
    focus_call        \* the most recent set_focus_date_and_month call

vars == <<schema, rows, last, prev, today, default_date, focus_date,
          calendar_matrix, month, focus_call>>

storeVars == <<schema, rows, last, prev>>
uiVars == <<today, default_date, focus_date, calendar_matrix, month,
            focus_call>>

---------------------------------------------------------------------------
(* Bounds *)

NumDates == 2       \* how many of the dates of DateList the calls use
NumTexts == 3       \* how many of the texts of TextList the calls use
NumYears == 4       \* how many years, from 2021 on, the calendar covers
MaxDays == 1        \* how many times the calendar day changes

---------------------------------------------------------------------------
(* Dates *)

Date(y, m, d) == [year |-> y, month |-> m, day |-> d]

NoDate == Date(0, 0, 0)

\* Chronological order of datetime.date values
DateLeq(a, b) ==
    \/ a.year < b.year
    \/ a.year = b.year /\ a.month < b.month
    \/ a.year = b.year /\ a.month = b.month /\ a.day <= b.day

DateLess(a, b) == DateLeq(a, b) /\ a # b

DateList ==
    << Date(2024, 2, 1), Date(2024, 1, 31), Date(999, 12, 31),
       Date(2024, 2, 10), Date(2023, 11, 9) >>

Dates ==
    {DateList[i] : i \in 1..(IF NumDates < Len(DateList) THEN NumDates
                                                         ELSE Len(DateList))}

\* The bounds of the range queries: the dates saved, one earlier, one later
QueryDates == Dates \cup {Date(2023, 10, 9), Date(2024, 2, 29)}

\* Entry texts, as code points: the empty text, e-acute newline euro (two,
\* one and three bytes in UTF-8), an emoji (four bytes), "a", "a" newline "b".
TextList ==
    << << >>, << 233, 10, 8364 >>, << 128512 >>, << 97 >>, << 97, 10, 98 >> >>

Texts ==
    {TextList[i] : i \in 1..(IF NumTexts < Len(TextList) THEN NumTexts
                                                         ELSE Len(TextList))}

---------------------------------------------------------------------------
(* Conversions done on the way to and from the database *)

Digit(n) == 48 + n

\* str(n) of a natural number, as character codes
RECURSIVE Str(_)
Str(n) == IF n < 10 THEN << Digit(n) >>
          ELSE Append(Str(n \div 10), Digit(n % 10))

\* Variant: "%d-%d-%d", the numbers not padded
isoformatUnpadded(date) ==
    Str(date.year) \o << 45 >> \o Str(date.month) \o << 45 >> \o Str(date.day)

\* date.isoformat(): "%04d-%02d-%02d"
isoformat(date) ==
    << Digit(date.year \div 1000), Digit((date.year \div 100) % 10),
       Digit((date.year \div 10) % 10), Digit(date.year % 10), 45,
       Digit(date.month \div 10), Digit(date.month % 10), 45,
       Digit(date.day \div 10), Digit(date.day % 10) >>

format_date(dates) == [i \in 1..Len(dates) |-> isoformat(dates[i])]

\* UTF-8 bytes of one code point, as the sqlite3 module binds a str
Utf8Char(c) ==
    IF c < 128 THEN << c >>
    ELSE IF c < 2048 THEN << 192 + (c \div 64), 128 + (c % 64) >>
    ELSE IF c < 65536
         THEN << 224 + (c \div 4096), 128 + ((c \div 64) % 64), 128 + (c % 64) >>
    ELSE << 240 + (c \div 262144), 128 + ((c \div 4096) % 64),
            128 + ((c \div 64) % 64), 128 + (c % 64) >>

RECURSIVE Utf8Encode(_)
Utf8Encode(text) ==
    IF text = << >> THEN << >>
    ELSE Utf8Char(Head(text)) \o Utf8Encode(Tail(text))

\* Decoding of a TEXT column into a str, as fetchall does
RECURSIVE Utf8Decode(_)
Utf8Decode(bytes) ==
    IF bytes = << >> THEN << >>
    ELSE LET b == bytes[1] IN
         IF b < 128 THEN << b >> \o Utf8Decode(SubSeq(bytes, 2, Len(bytes)))
         ELSE IF b < 224
              THEN << (b - 192) * 64 + (bytes[2] - 128) >>
                   \o Utf8Decode(SubSeq(bytes, 3, Len(bytes)))
         ELSE IF b < 240
              THEN << (b - 224) * 4096 + (bytes[2] - 128) * 64 + (bytes[3] - 128) >>
                   \o Utf8Decode(SubSeq(bytes, 4, Len(bytes)))
         ELSE << (b - 240) * 262144 + (bytes[2] - 128) * 4096
                 + (bytes[3] - 128) * 64 + (bytes[4] - 128) >>
              \o Utf8Decode(SubSeq(bytes, 5, Len(bytes)))

\* SQLite's BINARY collation on TEXT values: memcmp, then the shorter first
RECURSIVE LexLessFrom(_, _, _)
LexLessFrom(a, b, k) ==
    IF k > Len(b) THEN FALSE
    ELSE IF k > Len(a) THEN TRUE
    ELSE IF a[k] = b[k] THEN LexLessFrom(a, b, k + 1)
    ELSE a[k] < b[k]

LexLess(a, b) == LexLessFrom(a, b, 1)

LexLeq(a, b) == a = b \/ LexLess(a, b)

---------------------------------------------------------------------------
(* The entries table and its statements *)

HasRecord(rs, date) == \E i \in 1..Len(rs) : rs[i].date = date

\* id INTEGER PRIMARY KEY AUTOINCREMENT: one more than the largest rowid
NextId(rs) ==
    IF rs = << >> THEN 1
    ELSE 1 + (CHOOSE n \in {rs[i].id : i \in 1..Len(rs)} :
                  \A i \in 1..Len(rs) : rs[i].id <= n)

Result(exc, rs, fetched) == [exc |-> exc, rows |-> rs, fetched |-> fetched]

\* Variant: CREATE TABLE entries (...) with no IF NOT EXISTS, which an
\* existing table rejects
ExecCreateTablePlain(sch) ==
    IF sch.entries
    THEN [exc |-> "OperationalError", schema |-> sch]
    ELSE [exc |-> "none",
          schema |-> [sch EXCEPT !.entries = TRUE, !.date_unique = TRUE]]

\* CREATE TABLE IF NOT EXISTS entries (id ..., date DATE UNIQUE, entry TEXT)
ExecCreateTable(sch) ==
    IF sch.entries
    THEN [exc |-> "none", schema |-> sch]
    ELSE [exc |-> "none",
          schema |-> [sch EXCEPT !.entries = TRUE, !.date_unique = TRUE]]

\* CREATE UNIQUE INDEX IF NOT EXISTS idx_entries_date ON entries(date)
ExecCreateIndex(sch) ==
    IF ~sch.entries
    THEN [exc |-> "OperationalError", schema |-> sch]
    ELSE [exc |-> "none", schema |-> [sch EXCEPT !.idx_entries_date = TRUE]]

\* Variant: INSERT INTO entries (date, entry) VALUES (?, ?) with no
\* ON CONFLICT clause, which the uniqueness of date rejects for a stored date
ExecUpsertPlainInsert(sch, rs, date, entry) ==
    IF ~sch.entries \/ ~(sch.date_unique \/ sch.idx_entries_date)
    THEN Result("OperationalError", rs, << >>)
    ELSE IF HasRecord(rs, date)
    THEN Result("IntegrityError", rs, << >>)
    ELSE Result("none",
                Append(rs, [id |-> NextId(rs), date |-> date, entry |-> entry]),
                << >>)

\* Variant: the conflict answered by an update with no WHERE, which sets
\* the entry of every row
ExecUpsertUpdateAll(sch, rs, date, entry) ==
    IF ~sch.entries \/ ~(sch.date_unique \/ sch.idx_entries_date)
    THEN Result("OperationalError", rs, << >>)
    ELSE IF HasRecord(rs, date)
    THEN Result("none",
                [i \in 1..Len(rs) |-> [rs[i] EXCEPT !.entry = entry]],
                << >>)
    ELSE Result("none",
                Append(rs, [id |-> NextId(rs), date |-> date, entry |-> entry]),
                << >>)

\* INSERT INTO entries (date, entry) VALUES (?, ?)
\* ON CONFLICT(date) DO UPDATE SET entry = EXCLUDED.entry
ExecUpsert(sch, rs, date, entry) ==
    IF ~sch.entries \/ ~(sch.date_unique \/ sch.idx_entries_date)
    THEN Result("OperationalError", rs, << >>)
    ELSE IF HasRecord(rs, date)
    THEN Result("none",
                [i \in 1..Len(rs) |->
                    IF rs[i].date = date THEN [rs[i] EXCEPT !.entry = entry]
                                         ELSE rs[i]],
                << >>)
    ELSE Result("none",
                Append(rs, [id |-> NextId(rs), date |-> date, entry |-> entry]),
                << >>)

\* Variant: the bounds taken in either order
BetweenSymmetric(x, lo, hi) ==
    \/ LexLeq(lo, x) /\ LexLeq(x, hi)
    \/ LexLeq(hi, x) /\ LexLeq(x, lo)

\* Variant: date > ? AND date < ?
BetweenExclusive(x, lo, hi) == LexLess(lo, x) /\ LexLess(x, hi)

\* date BETWEEN ? and ?
Between(x, lo, hi) == LexLeq(lo, x) /\ LexLeq(x, hi)

\* The positions of a set of rows in the order of the index on date
RECURSIVE IndexOrder(_, _)
IndexOrder(rs, I) ==
    IF I = {} THEN << >>
    ELSE LET i == CHOOSE k \in I :
                      \A j \in I : \/ LexLess(rs[k].date, rs[j].date)
                                   \/ rs[k].date = rs[j].date /\ k <= j
         IN << i >> \o IndexOrder(rs, I \ {i})

\* The same positions in rowid order
RECURSIVE RowidOrder(_, _)
RowidOrder(rs, I) ==
    IF I = {} THEN << >>
    ELSE LET i == CHOOSE k \in I : \A j \in I : k <= j
         IN << i >> \o RowidOrder(rs, I \ {i})

\* The query has no ORDER BY: the rows come in the order of the plan SQLite
\* picks, a search of the index on date or a scan of the table.
Plans == {"index", "scan"}

\* cursor.fetchall(): the columns date and entry of the rows at the positions
\* order, as Python values
Fetchall(rs, order) ==
    [k \in 1..Len(order) |->
        << rs[order[k]].date, Utf8Decode(rs[order[k]].entry) >>]

\* SELECT date, entry FROM entries WHERE date BETWEEN ? and ?  ; fetchall()
ExecSelect(sch, rs, f_start_date, f_end_date, plan) ==
    IF ~sch.entries THEN Result("OperationalError", rs, << >>)
    ELSE LET I == {i \in 1..Len(rs) : Between(rs[i].date, f_start_date, f_end_date)}
         IN Result("none", rs,
                   Fetchall(rs, IF plan = "index" THEN IndexOrder(rs, I)
                                                  ELSE RowidOrder(rs, I)))

\* DELETE FROM entries WHERE = ?   (does not parse: execute raises
\* sqlite3.OperationalError before any row is touched)
ExecDelete(sch, rs, date) == Result("OperationalError", rs, << >>)

---------------------------------------------------------------------------
(* Entries.cursor_manager *)

\* What the database does to a call: the error cursor.execute raises and
\* the error conn.commit() raises.  conn.cursor() does no I/O and is taken
\* to succeed.
NoFault == [stmt |-> "none", commit |-> "none"]

\* One failure at a time: the commit is only reached after the statement
Faults ==
    {NoFault}
    \cup {[stmt |-> e, commit |-> "none"] : e \in {"IntegrityError", "OperationalError"}}
    \cup {[stmt |-> "none", commit |-> e] : e \in {"IntegrityError", "OperationalError"}}

\* Variant: conn.rollback() where the code commits
cursor_managerRollback(committed, body, body_log, commit_fault) ==
    LET exc == IF body.exc # "none" THEN body.exc ELSE commit_fault
        log == IF body.exc # "none" THEN << >> ELSE body_log
    IN  IF exc = "none"
        THEN [rows |-> committed, error |-> "none", raised |-> "none",
              completed |-> TRUE, log |-> log, txn |-> "rollback",
              steps |-> << "rollback", "close" >>, closed |-> TRUE]
        ELSE IF exc = "IntegrityError"
        THEN [rows |-> committed, error |-> exc, raised |-> "none",
              completed |-> (body.exc = "none"),
              log |-> Append(log, "exception: SQLite error:"),
              txn |-> "rollback",
              steps |-> << "rollback", "log", "close" >>, closed |-> TRUE]
        ELSE [rows |-> committed, error |-> exc, raised |-> exc,
              completed |-> (body.exc = "none"),
              log |-> Append(log, "exception: Error at:"),
              txn |-> "rollback",
              steps |-> << "rollback", "log", "raise", "close" >>,
              closed |-> TRUE]

\* Variant: the handlers without conn.rollback(); the open transaction keeps
\* what the statement wrote, and later statements on the connection see it
cursor_managerNoRollback(committed, body, body_log, commit_fault) ==
    LET exc == IF body.exc # "none" THEN body.exc ELSE commit_fault
        log == IF body.exc # "none" THEN << >> ELSE body_log
    IN  IF exc = "none"
        THEN [rows |-> body.rows, error |-> "none", raised |-> "none",
              completed |-> TRUE, log |-> log, txn |-> "commit",
              steps |-> << "commit", "close" >>, closed |-> TRUE]
        ELSE IF exc = "IntegrityError"
        THEN [rows |-> body.rows, error |-> exc, raised |-> "none",
              completed |-> (body.exc = "none"),
              log |-> Append(log, "exception: SQLite error:"),
              txn |-> "open",
              steps |-> << "log", "close" >>, closed |-> TRUE]
        ELSE [rows |-> body.rows, error |-> exc, raised |-> exc,
              completed |-> (body.exc = "none"),
              log |-> Append(log, "exception: Error at:"),
              txn |-> "open",
              steps |-> << "log", "raise", "close" >>, closed |-> TRUE]

\* Variant: the second handler without its raise
cursor_managerSwallow(committed, body, body_log, commit_fault) ==
    LET exc == IF body.exc # "none" THEN body.exc ELSE commit_fault
        log == IF body.exc # "none" THEN << >> ELSE body_log
    IN  IF exc = "none"
        THEN [rows |-> body.rows, error |-> "none", raised |-> "none",
              completed |-> TRUE, log |-> log, txn |-> "commit",
              steps |-> << "commit", "close" >>, closed |-> TRUE]
        ELSE IF exc = "IntegrityError"
        THEN [rows |-> committed, error |-> exc, raised |-> "none",
              completed |-> (body.exc = "none"),
              log |-> Append(log, "exception: SQLite error:"),
              txn |-> "rollback",
              steps |-> << "rollback", "log", "close" >>, closed |-> TRUE]
        ELSE [rows |-> committed, error |-> exc, raised |-> "none",
              completed |-> (body.exc = "none"),
              log |-> Append(log, "exception: Error at:"),
              txn |-> "rollback",
              steps |-> << "rollback", "log", "close" >>, closed |-> TRUE]

\* Entries.cursor_manager: what the with-block leaves behind.  body is the
\* outcome of the statements run under the cursor (on the working copy of
\* the table), body_log what the block logged after them, commit_fault the
\* error conn.commit() raises.
\*   rows      the committed table afterwards
\*   error     the exception that arose inside the with-block
\*   raised    the exception that leaves the with-block
\*   completed whether the block ran to its end (its return was executed)
\*   txn       how the transaction ended
\*   steps     what the manager did after the block, in order: "raise" is
\*             the raise statement, after which the finally clause closes
\*             the cursor and the exception reaches the caller
cursor_manager(committed, body, body_log, commit_fault) ==
    LET exc == IF body.exc # "none" THEN body.exc ELSE commit_fault
        log == IF body.exc # "none" THEN << >> ELSE body_log
    IN  IF exc = "none"
        THEN [rows |-> body.rows, error |-> "none", raised |-> "none",
              completed |-> TRUE, log |-> log, txn |-> "commit",
              steps |-> << "commit", "close" >>, closed |-> TRUE]
        ELSE IF exc = "IntegrityError"
        THEN [rows |-> committed, error |-> exc, raised |-> "none",
              completed |-> (body.exc = "none"),
              log |-> Append(log, "exception: SQLite error:"),
              txn |-> "rollback",
              steps |-> << "rollback", "log", "close" >>, closed |-> TRUE]
        ELSE [rows |-> committed, error |-> exc, raised |-> exc,
              completed |-> (body.exc = "none"),
              log |-> Append(log, "exception: Error at:"),
              txn |-> "rollback",
              steps |-> << "rollback", "log", "raise", "close" >>,
              closed |-> TRUE]

\* cursor.execute on the table rs: a statement that fails for a reason of
\* the environment leaves the table as it was (SQLite undoes the statement).
Run(fault, rs, result) ==
    IF fault.stmt # "none" /\ result.exc = "none"
    THEN Result(fault.stmt, rs, << >>)
    ELSE result

---------------------------------------------------------------------------
(* The repository calls *)

\* formatted: the dates as they are handed to cursor.execute
Call(op, date, entry, start_date, end_date, formatted, out, returned) ==
    [op |-> op, date |-> date, entry |-> entry,
     start_date |-> start_date, end_date |-> end_date,
     formatted |-> formatted,
     error |-> out.error, raised |-> out.raised, returned |-> returned,
     log |-> out.log, txn |-> out.txn, steps |-> out.steps,
     closed |-> out.closed]

\* What is remembered of the call before the last one: a save, or another call
Summary(call) ==
    IF call.op = "save"
    THEN [op |-> "save", date |-> call.date, entry |-> call.entry,
          raised |-> call.raised]
    ELSE [op |-> "other", date |-> NoDate, entry |-> << >>, raised |-> "none"]

\* init_entries_table, as Entries.__init__ runs it. The two statements are
\* data definition, which sqlite3 runs outside a transaction: what they did
\* stays when the commit after them fails.
InitEntriesTable(fault) ==
    LET table == ExecCreateTable(schema)
        index == IF table.exc = "none" THEN ExecCreateIndex(table.schema)
                                       ELSE table
        exc == IF fault.stmt # "none" THEN fault.stmt
               ELSE IF index.exc # "none" THEN index.exc
               ELSE fault.commit
        out == [error |-> exc,
                raised |-> IF exc = "IntegrityError" THEN "none" ELSE exc,
                log |-> IF exc = "none" THEN << >>
                        ELSE << "exception: SQLite error:" >>,
                txn |-> IF exc = "none" THEN "commit" ELSE "rollback",
                steps |-> IF exc = "none" THEN << "commit", "close" >>
                          ELSE IF exc = "IntegrityError"
                          THEN << "rollback", "log", "close" >>
                          ELSE << "rollback", "log", "raise", "close" >>,
                closed |-> TRUE]
    IN  /\ schema' = IF fault.stmt = "none" THEN index.schema ELSE schema
        /\ rows' = rows
        /\ last' = Call("init", NoDate, << >>, NoDate, NoDate, << >>, out, << >>)
        /\ prev' = Summary(last)
        /\ UNCHANGED uiVars

\* Entries.save(day)
Save(day, fault) ==
    \E formatted_date \in {format_date(<< day.date >>)[1]} :
    \E body \in {Run(fault, rows, ExecUpsert(schema, rows, formatted_date,
                                              Utf8Encode(day.entry)))} :
    \E out \in {cursor_manager(rows, body, << "info: Entry saved" >>,
                                fault.commit)} :
        /\ rows' = out.rows
        /\ last' = Call("save", day.date, day.entry, NoDate, NoDate,
                        << formatted_date >>, out, << >>)
        /\ prev' = Summary(last)
        /\ UNCHANGED <<schema, uiVars>>

\* Entries.get_by_dates(start_date, end_date)
GetByDates(start_date, end_date, plan, fault) ==
    \E f \in {format_date(<< start_date, end_date >>)} :
    \E body \in {Run(fault, rows, ExecSelect(schema, rows, f[1], f[2], plan))} :
    \E out \in {cursor_manager(rows, body, << "info: Entries retrieve" >>,
                                fault.commit)} :
        /\ rows' = out.rows
        /\ last' = Call("get_by_dates", NoDate, << >>, start_date, end_date, f, out,
                        IF out.completed /\ out.raised = "none"
                        THEN body.fetched ELSE << >>)
        /\ prev' = Summary(last)
        /\ UNCHANGED <<schema, uiVars>>

\* Entries.delete(day)
Delete(day, fault) ==
    \E formatted_date \in {format_date(<< day.date >>)[1]} :
    \E body \in {Run(fault, rows, ExecDelete(schema, rows, formatted_date))} :
    \E out \in {cursor_manager(rows, body, << "info: Entry deleted" >>,
                                fault.commit)} :
        /\ rows' = out.rows
        /\ last' = Call("delete", day.date, << >>, NoDate, NoDate,
                        << formatted_date >>, out, << >>)
        /\ prev' = Summary(last)
        /\ UNCHANGED <<schema, uiVars>>

---------------------------------------------------------------------------
(* The calendar and datetime functions the code calls *)

\* calendar.isleap
isleap(year) == year % 4 = 0 /\ (year % 100 # 0 \/ year % 400 = 0)

\* calendar.mdays
mdays == << 31, 28, 31, 30, 31, 30, 31, 31, 30, 31, 30, 31 >>

\* datetime._days_before_year
days_before_year(year) ==
    LET y == year - 1 IN y * 365 + (y \div 4) - (y \div 100) + (y \div 400)

\* datetime._days_before_month
days_before_month(year, m) ==
    << 0, 31, 59, 90, 120, 151, 181, 212, 243, 273, 304, 334 >>[m]
    + (IF m > 2 /\ isleap(year) THEN 1 ELSE 0)

\* date.toordinal
toordinal(date) ==
    days_before_year(date.year) + days_before_month(date.year, date.month)
    + date.day

\* date.weekday: Monday is 0
weekday(date) == (toordinal(date) + 6) % 7

\* calendar.monthrange: weekday of the first day, number of days
monthrange(year, m) ==
    [day1 |-> weekday(Date(year, m, 1)),
     ndays |-> mdays[m] + (IF m = 2 /\ isleap(year) THEN 1 ELSE 0)]

\* Variant: the weeks starting on Sunday (firstweekday = 6)
itermonthdaysSundayFirst(year, m) ==
    LET r == monthrange(year, m)
        days_before == (r.day1 - 6) % 7
        days_after == (6 - r.day1 - r.ndays) % 7
    IN  [k \in 1..(days_before + r.ndays + days_after) |->
            IF k <= days_before \/ k > days_before + r.ndays THEN 0
            ELSE k - days_before]

\* Calendar.itermonthdays with firstweekday = 0
itermonthdays(year, m) ==
    LET r == monthrange(year, m)
        days_before == (r.day1 - 0) % 7
        days_after == (0 - r.day1 - r.ndays) % 7
    IN  [k \in 1..(days_before + r.ndays + days_after) |->
            IF k <= days_before \/ k > days_before + r.ndays THEN 0
            ELSE k - days_before]

\* calendar.monthcalendar: the days of the month in weeks of seven
monthcalendar(year, m) ==
    LET days == itermonthdays(year, m)
    IN  [w \in 1..(Len(days) \div 7) |-> SubSeq(days, 7 * (w - 1) + 1, 7 * w)]

\* calendar.month_name
month_name ==
    << "January", "February", "March", "April", "May", "June", "July",
       "August", "September", "October", "November", "December" >>

\* Display strings are sequences of tokens: a month name or one character.
DigitChar(n) == << "0", "1", "2", "3", "4", "5", "6", "7", "8", "9" >>[n + 1]

\* str(n) of a natural number
RECURSIVE Decimal(_)
Decimal(n) ==
    IF n < 10 THEN << DigitChar(n) >>
    ELSE Append(Decimal(n \div 10), DigitChar(n % 10))

---------------------------------------------------------------------------
(* model.py *)

\* Day.get_date_string: strftime('%B %d, %Y'); %d is the day in two digits
get_date_string(date) ==
    << month_name[date.month], " ",
       DigitChar(date.day \div 10), DigitChar(date.day % 10), ",", " " >>
    \o Decimal(date.year)

\* Day.__init__
Day(date) ==
    [date |-> date, entry |-> << >>, date_string |-> get_date_string(date)]

\* A cell of Month.month_matrix holds an int or a Day; the int n is the
\* record [int |-> n].
Int0 == [int |-> 0]

ZeroRow == << 0, 0, 0, 0, 0, 0, 0 >>

\* Variant: the Day of a cell dated by the cell's column, not by its number
MonthBuildCalendarMatrixByColumn(month_num, year) ==
    LET natural == monthcalendar(year, month_num)
        month_matrix == IF Len(natural) < 6 THEN Append(natural, ZeroRow)
                                            ELSE natural
    IN  [i \in 1..Len(month_matrix) |->
            [j \in 1..Len(month_matrix[i]) |->
                IF month_matrix[i][j] # 0
                THEN Day(Date(year, month_num, j))
                ELSE Int0]]

\* Month.build_calendar_matrix
MonthBuildCalendarMatrix(month_num, year) ==
    LET natural == monthcalendar(year, month_num)
        month_matrix == IF Len(natural) < 6 THEN Append(natural, ZeroRow)
                                            ELSE natural
    IN  [i \in 1..Len(month_matrix) |->
            [j \in 1..Len(month_matrix[i]) |->
                IF month_matrix[i][j] # 0
                THEN Day(Date(year, month_num, month_matrix[i][j]))
                ELSE Int0]]

\* Month.__init__
Month(month_num, year) ==
    [month_num |-> month_num, year |-> year,
     month_matrix |-> MonthBuildCalendarMatrix(month_num, year),
     month_name |-> month_name[month_num]]

---------------------------------------------------------------------------
(* controller.py *)

\* Variant: the zero row appended whatever the number of rows
build_calendar_matrixAlwaysAppend(date) ==
    Append(monthcalendar(date.year, date.month), ZeroRow)

\* Controller.build_calendar_matrix
build_calendar_matrix(date) ==
    LET month_matrix == monthcalendar(date.year, date.month)
    IN  IF Len(month_matrix) < 6 THEN Append(month_matrix, ZeroRow)
                                 ELSE month_matrix

\* Controller.get_focus_date_str, for the focus date given:
\* f'{month_str} {day}, {year}'
get_focus_date_str(date) ==
    << month_name[date.month], " " >> \o Decimal(date.day) \o << ",", " " >>
    \o Decimal(date.year)

\* Controller.get_focus_date
get_focus_date == focus_date

\* Variant: the focus date replaced, the matrix left as it was
set_focus_date_and_monthNoRebuild(date) ==
    [focus_date |-> date, calendar_matrix |-> calendar_matrix]

\* The body of Controller.set_focus_date_and_month: the fields it assigns
set_focus_date_and_month(date) ==
    [focus_date |-> date, calendar_matrix |-> build_calendar_matrix(date)]

\* The record of a call: whether a date was given, which, and the day of
\* the call when none was
FocusCall(given, date, at) == [given |-> given, date |-> date, at |-> at]

\* Controller.set_focus_date_and_month(date)
SetFocusDateAndMonth(date) ==
    /\ focus_date' = set_focus_date_and_month(date).focus_date
    /\ calendar_matrix' = set_focus_date_and_month(date).calendar_matrix
    /\ focus_call' = FocusCall(TRUE, date, NoDate)
    /\ UNCHANGED <<storeVars, today, default_date, month>>

\* Controller.set_focus_date_and_month(), the date left to its default:
\* datetime.date.today() as it was evaluated when the def statement ran
SetFocusDefault ==
    /\ focus_date' = set_focus_date_and_month(default_date).focus_date
    /\ calendar_matrix' = set_focus_date_and_month(default_date).calendar_matrix
    /\ focus_call' = FocusCall(FALSE, NoDate, today)
    /\ UNCHANGED <<storeVars, today, default_date, month>>

\* Month(month_num, year)
NewMonth(month_num, year) ==
    /\ month' = Month(month_num, year)
    /\ UNCHANGED <<storeVars, today, default_date, focus_date, calendar_matrix,
                   focus_call>>

\* The day after
NextDay(date) ==
    IF date.day < monthrange(date.year, date.month).ndays
    THEN Date(date.year, date.month, date.day + 1)
    ELSE IF date.month < 12 THEN Date(date.year, date.month + 1, 1)
    ELSE Date(date.year + 1, 1, 1)

\* The calendar day changes while the process runs: datetime.date.today()
\* gives the next day from now on
Midnight ==
    /\ toordinal(today) - toordinal(Date(2020 + 1, 1, 4)) < MaxDays
    /\ today' = NextDay(today)
    /\ UNCHANGED <<storeVars, default_date, focus_date, calendar_matrix, month,
                   focus_call>>

---------------------------------------------------------------------------
(* Inputs *)

Years == {2020 + i : i \in 1..NumYears}

FocusDates ==
    {Date(y, m, 4) : y \in Years, m \in 1..12}
    \cup {Date(y, m, monthrange(y, m).ndays) : y \in Years, m \in 1..12}

\* A Day as the caller hands it to the repository: its entry filled in
DayWith(date, text) == [Day(date) EXCEPT !.entry = text]

Days == {DayWith(d, t) : d \in Dates, t \in Texts}

---------------------------------------------------------------------------
(* Specifications *)

InitStore ==
    /\ schema = [entries |-> TRUE, date_unique |-> TRUE,
                 idx_entries_date |-> TRUE]
    /\ rows = << >>
    /\ last = [op |-> "init", date |-> NoDate, entry |-> << >>,
               start_date |-> NoDate, end_date |-> NoDate,
               formatted |-> << >>,
               error |-> "none", raised |-> "none", returned |-> << >>,
               log |-> << >>, txn |-> "commit",
               steps |-> << "commit", "close" >>, closed |-> TRUE]
    /\ prev = [op |-> "other", date |-> NoDate, entry |-> << >>,
               raised |-> "none"]

\* No Controller and no Month constructed
NoUi ==
    /\ today = DateList[1]
    /\ default_date = today
    /\ focus_date = NoDate
    /\ calendar_matrix = << >>
    /\ month = [month_num |-> 0, year |-> 0, month_matrix |-> << >>,
                month_name |-> ""]
    /\ focus_call = FocusCall(FALSE, NoDate, NoDate)

\* The controller module loaded today, a Controller and a Month constructed
InitUi ==
    /\ today = Date(2020 + 1, 1, 4)
    /\ default_date = today
    /\ focus_date = default_date
    /\ calendar_matrix = build_calendar_matrix(focus_date)
    /\ month \in {Month(m, y) : m \in 1..12, y \in Years}
    /\ focus_call = FocusCall(FALSE, NoDate, today)

\* The repository, on a database that works
Init == InitStore /\ NoUi

Next ==
    \/ InitEntriesTable(NoFault)
    \/ \E day \in Days : Save(day, NoFault)
    \/ \E start_date, end_date \in QueryDates, plan \in Plans :
           GetByDates(start_date, end_date, plan, NoFault)
    \/ \E date \in Dates : Delete(Day(date), NoFault)

Spec == Init /\ [][Next]_vars

\* The repository, on a database whose statements and commits may fail;
\* the calls save the empty text or one other and read one date at a time
FaultNext ==
    \/ \E fault \in Faults : InitEntriesTable(fault)
    \/ \E date \in Dates, text \in {TextList[1], TextList[2]}, fault \in Faults :
           Save(DayWith(date, text), fault)
    \/ \E date \in Dates, plan \in Plans, fault \in Faults :
           GetByDates(date, date, plan, fault)
    \/ \E date \in Dates, fault \in Faults : Delete(Day(date), fault)

FaultSpec == Init /\ [][FaultNext]_vars

\* A database with no entries table, no Entries constructed yet
FreshInit ==
    /\ schema = [entries |-> FALSE, date_unique |-> FALSE,
                 idx_entries_date |-> FALSE]
    /\ rows = << >>
    /\ last = [op |-> "connect", date |-> NoDate, entry |-> << >>,
               start_date |-> NoDate, end_date |-> NoDate,
               formatted |-> << >>,
               error |-> "none", raised |-> "none", returned |-> << >>,
               log |-> << >>, txn |-> "commit", steps |-> << >>,
               closed |-> TRUE]
    /\ prev = [op |-> "other", date |-> NoDate, entry |-> << >>,
               raised |-> "none"]

\* The repository from its first construction on: the calls of an Entries
\* come after an Entries.__init__
StartNext ==
    \/ InitEntriesTable(NoFault)
    \/ \E day \in Days : last.op # "connect" /\ Save(day, NoFault)
    \/ \E date \in Dates, plan \in Plans :
           last.op # "connect" /\ GetByDates(date, date, plan, NoFault)
    \/ \E date \in Dates : last.op # "connect" /\ Delete(Day(date), NoFault)

StartInit == FreshInit /\ NoUi

StartSpec == StartInit /\ [][StartNext]_vars

\* The controller and the Month entity
CalInit == InitStore /\ InitUi

CalNext ==
    \/ \E date \in FocusDates : SetFocusDateAndMonth(date)
    \/ SetFocusDefault
    \/ \E month_num \in 1..12, year \in Years : NewMonth(month_num, year)

CalSpec == CalInit /\ [][CalNext]_vars

\* The controller over a change of the calendar day, one Month constructed
FocusInit == InitStore /\ InitUi /\ month = Month(1, 2020 + 1)

FocusNext ==
    \/ \E date \in FocusDates : SetFocusDateAndMonth(date)
    \/ SetFocusDefault
    \/ Midnight

FocusSpec == FocusInit /\ [][FocusNext]_vars

---------------------------------------------------------------------------
(* Properties of the repository *)

\* The positions of the rows stored for a date
RowsOf(date) == {i \in 1..Len(rows) : rows[i].date = isoformat(date)}

\* The date an ISO string stands for
DateOf(iso) == CHOOSE d \in QueryDates : isoformat(d) = iso

Elems(seq) == {seq[k] : k \in 1..Len(seq)}

\* C1: a save of (d, t) followed by get_by_dates(d, d) returns exactly one
\* record, the ISO form of d with the text t as it was saved.
C1_SaveThenGet ==
    (/\ prev.op = "save" /\ prev.raised = "none"
     /\ last.op = "get_by_dates"
     /\ last.start_date = prev.date /\ last.end_date = prev.date)
    => /\ last.raised = "none"
       /\ last.returned = << << isoformat(prev.date), prev.entry >> >>

\* A text with Unicode and a newline saved next to another record, read back
C1_Witness ==
    /\ prev.op = "save" /\ prev.entry = << 233, 10, 8364 >>
    /\ last.op = "get_by_dates"
    /\ last.start_date = prev.date /\ last.end_date = prev.date
    /\ Len(rows) = 2
    /\ Len(last.returned) = 1

\* C2: the table holds at most one record per date, and a second save for a
\* date overwrites the text: no second row, no uniqueness conflict.
C2_OneRecordPerDate ==
    /\ \A i, j \in 1..Len(rows) : rows[i].date = rows[j].date => i = j
    /\ (prev.op = "save" /\ last.op = "save" /\ prev.date = last.date)
       => /\ last.raised = "none"
          /\ last.log = << "info: Entry saved" >>
          /\ Cardinality(RowsOf(last.date)) = 1
          /\ \A i \in RowsOf(last.date) : Utf8Decode(rows[i].entry) = last.entry

\* Two saves of different texts for one date, another date stored as well
C2_Witness ==
    /\ prev.op = "save" /\ last.op = "save"
    /\ prev.date = last.date /\ prev.entry # last.entry
    /\ Len(rows) = 2
    /\ Cardinality(RowsOf(last.date)) = 1

\* C3: delete of a date that has a record raises nothing and removes that
\* record, and the records of all other dates stay as they were.
C3_DeleteRemoves ==
    [][(last'.op = "delete" /\ RowsOf(last'.date) # {})
       => /\ last'.raised = "none"
          /\ ~HasRecord(rows', isoformat(last'.date))
          /\ Elems(rows') = {rows[i] : i \in (1..Len(rows)) \ RowsOf(last'.date)}]_vars

\* C4: delete of a date that has no record raises nothing and leaves the
\* stored records as they were.
C4_DeleteAbsent ==
    [][(last'.op = "delete" /\ RowsOf(last'.date) = {})
       => (last'.raised = "none" /\ rows' = rows)]_vars

\* The stored rows whose date lies chronologically in [start_date, end_date]
InRange(start_date, end_date) ==
    {i \in 1..Len(rows) :
        /\ DateLeq(start_date, DateOf(rows[i].date))
        /\ DateLeq(DateOf(rows[i].date), end_date)}

\* C5: for start <= end, get_by_dates returns exactly the stored records
\* dated from start to end, both bounds included, and an empty sequence
\* (no error) when there is none.
C5_InclusiveRange ==
    (last.op = "get_by_dates" /\ DateLeq(last.start_date, last.end_date))
    => /\ last.raised = "none"
       /\ Elems(last.returned)
            = {<< rows[i].date, Utf8Decode(rows[i].entry) >> :
                   i \in InRange(last.start_date, last.end_date)}
       /\ Len(last.returned)
            = Cardinality(InRange(last.start_date, last.end_date))

\* A range whose two bounds both carry a record
C5_Witness ==
    /\ last.op = "get_by_dates"
    /\ DateLess(last.start_date, last.end_date)
    /\ RowsOf(last.start_date) # {} /\ RowsOf(last.end_date) # {}
    /\ Len(last.returned) = 2

\* C6: with reversed bounds (start after end) get_by_dates returns an empty
\* sequence, raises nothing and leaves the store as it was.
C6_ReversedBounds ==
    [][(last'.op = "get_by_dates" /\ DateLess(last'.end_date, last'.start_date))
       => /\ last'.returned = << >>
          /\ last'.raised = "none"
          /\ rows' = rows /\ schema' = schema]_vars

\* Reversed bounds around a stored record
C6_Witness ==
    /\ last.op = "get_by_dates"
    /\ DateLess(last.end_date, last.start_date)
    /\ InRange(last.end_date, last.start_date) # {}
    /\ last.returned = << >>

\* C7: the records get_by_dates returns are in chronological order.
C7_Chronological ==
    last.op = "get_by_dates"
    => \A k \in 1..(Len(last.returned) - 1) :
           DateLess(DateOf(last.returned[k][1]), DateOf(last.returned[k + 1][1]))

\* C11: a save or delete whose statement or commit fails is rolled back and
\* leaves the committed rows as they were; every call ends its transaction
\* with a commit or a rollback and closes the cursor.
C11_Atomic ==
    [][/\ (last'.op \in {"save", "delete"} /\ last'.error # "none")
          => (rows' = rows /\ last'.txn = "rollback")
       /\ last'.txn \in {"commit", "rollback"}
       /\ last'.txn = "commit" <=> last'.error = "none"
       /\ last'.closed]_vars

\* A save whose commit failed after the statement had written a new row
C11_Witness ==
    /\ last.op = "save" /\ last.error = "OperationalError"
    /\ last.log = << "info: Entry saved", "exception: Error at:" >>
    /\ last.txn = "rollback"
    /\ RowsOf(last.date) = {}
    /\ Len(rows) = 1

\* The place of a step among the steps of a call, 0 if it was not taken
Pos(steps, step) ==
    IF \E k \in 1..Len(steps) : steps[k] = step
    THEN CHOOSE k \in 1..Len(steps) : steps[k] = step
    ELSE 0

C14_InitIdempotent ==
    [][last'.op = "init"
       => /\ last'.error = "none" /\ last'.raised = "none"
          /\ schema'.entries /\ schema'.date_unique /\ schema'.idx_entries_date
          /\ (schema.entries => schema' = schema)
          /\ rows' = rows]_vars

\* An Entries constructed a second time on a connection after a save
C14_Witness ==
    /\ last.op = "init" /\ last.raised = "none"
    /\ prev.op = "save" /\ prev.raised = "none"
    /\ \E i \in 1..Len(rows) :
          rows[i].date = isoformat(prev.date)
          /\ rows[i].entry = Utf8Encode(prev.entry)

\* YYYY-MM-DD: ten characters, digits but for the dashes at 5 and 8
IsIsoShape(s) ==
    /\ Len(s) = 10
    /\ s[5] = 45 /\ s[8] = 45
    /\ \A k \in {1, 2, 3, 4, 6, 7, 9, 10} : s[k] \in 48..57

\* The date a string of that shape names
ParseIso(s) ==
    Date(1000 * (s[1] - 48) + 100 * (s[2] - 48) + 10 * (s[3] - 48) + (s[4] - 48),
         10 * (s[6] - 48) + (s[7] - 48),
         10 * (s[9] - 48) + (s[10] - 48))

IsIsoOf(s, date) == IsIsoShape(s) /\ ParseIso(s) = date

\* The dates the ordering is compared on
OrderDates == Elems(DateList) \cup QueryDates

\* The strings the store holds as keys or was handed in the last call
StoreStrings == {rows[i].date : i \in 1..Len(rows)} \cup Elems(last.formatted)

\* C16: format_date gives every date its YYYY-MM-DD string, the strings
\* compare lexically as the dates compare chronologically (less and equal
\* alike), and save, get_by_dates and delete hand the store only this form
\* as key or bound.
C16_IsoOrder ==
    /\ \A a \in OrderDates : IsIsoOf(format_date(<< a >>)[1], a)
    /\ \A a, b \in OrderDates :
          /\ DateLess(a, b)
                <=> LexLess(format_date(<< a, b >>)[1], format_date(<< a, b >>)[2])
          /\ a = b <=> format_date(<< a, b >>)[1] = format_date(<< a, b >>)[2]
    /\ last.op \in {"save", "delete"}
          => Len(last.formatted) = 1 /\ IsIsoOf(last.formatted[1], last.date)
    /\ last.op = "get_by_dates"
          => /\ Len(last.formatted) = 2
             /\ IsIsoOf(last.formatted[1], last.start_date)
             /\ IsIsoOf(last.formatted[2], last.end_date)
    /\ \A s, t \in StoreStrings :
          /\ IsIsoShape(s)
          /\ LexLess(s, t) <=> DateLess(ParseIso(s), ParseIso(t))

\* A read from 2023-10-09 to 2024-02-01 of a store that holds 2024-01-31
C16_Witness ==
    /\ last.op = "get_by_dates"
    /\ last.formatted = << << 50, 48, 50, 51, 45, 49, 48, 45, 48, 57 >>,
                           << 50, 48, 50, 52, 45, 48, 50, 45, 48, 49 >> >>
    /\ \E i \in 1..Len(rows) :
          rows[i].date = << 50, 48, 50, 52, 45, 48, 49, 45, 51, 49 >>
    /\ Len(last.returned) = 1

\* The record of the key in the table rs: the entries stored under it
RecordOf(rs, key) == {rs[i].entry : i \in {k \in 1..Len(rs) : rs[k].date = key}}

KeysOf(rs) == {rs[i].date : i \in 1..Len(rs)}

\* C19: save(d, t) changes only the record of d: the record of every other
\* date, present or not, is the same before and after; get_by_dates changes
\* no record.
C19_SaveFrame ==
    [][/\ last'.op = "save"
          => \A key \in KeysOf(rows) \cup KeysOf(rows') :
                ParseIso(key) # last'.date
                => RecordOf(rows', key) = RecordOf(rows, key)
       /\ last'.op = "get_by_dates" => rows' = rows]_vars

\* Two dates stored with different texts, the second save over a record of
\* its own date
C19_Witness ==
    /\ prev.op = "save" /\ last.op = "save" /\ prev.date # last.date
    /\ prev.entry # last.entry /\ prev.entry # << >>
    /\ Len(rows) = 2
    /\ rows[1].date = isoformat(last.date)
    /\ rows[1].entry = Utf8Encode(last.entry)
    /\ rows[2].date = isoformat(prev.date)
    /\ rows[2].entry = Utf8Encode(prev.entry)

---------------------------------------------------------------------------
(* Properties of the calendar matrix *)

\* The length of a month by the Gregorian rule
GregorianDays(year, m) ==
    IF m \in {4, 6, 9, 11} THEN 30
    ELSE IF m # 2 THEN 31
    ELSE IF year % 400 = 0 \/ (year % 4 = 0 /\ year % 100 # 0) THEN 29
    ELSE 28

\* The weekday of the first of a month by Zeller's congruence, Monday = 0
ZellerFirstWeekday(year, m) ==
    LET mm == IF m < 3 THEN m + 12 ELSE m
        yy == IF m < 3 THEN year - 1 ELSE year
        h == (1 + ((13 * (mm + 1)) \div 5) + (yy % 100) + ((yy % 100) \div 4)
              + ((yy \div 100) \div 4) + 5 * (yy \div 100)) % 7
    IN  (h + 5) % 7

RECURSIVE Flatten(_)
Flatten(matrix) ==
    IF matrix = << >> THEN << >> ELSE Head(matrix) \o Flatten(Tail(matrix))

\* The day numbers in the cells of a Month's matrix
DayNumbers(month_matrix) ==
    [i \in 1..Len(month_matrix) |->
        [j \in 1..Len(month_matrix[i]) |->
            IF month_matrix[i][j] = Int0 THEN 0
            ELSE month_matrix[i][j].date.day]]

\* C8: the matrix of the Controller and the matrix of a Month have exactly
\* 6 rows of exactly 7 cells.
C8_SixBySeven ==
    /\ Len(calendar_matrix) = 6
    /\ \A i \in 1..Len(calendar_matrix) : Len(calendar_matrix[i]) = 7
    /\ Len(month.month_matrix) = 6
    /\ \A i \in 1..Len(month.month_matrix) : Len(month.month_matrix[i]) = 7

\* C9: read row by row, the cells of the matrix are zeros up to the column of
\* the weekday of day 1 (column 0 is Monday), then 1..N with N the length of
\* the month, then zeros.
C9_DaysInOrder ==
    LET cells == Flatten(calendar_matrix)
        first == ZellerFirstWeekday(focus_date.year, focus_date.month)
        N == GregorianDays(focus_date.year, focus_date.month)
    IN  /\ \A i \in 1..Len(calendar_matrix) : Len(calendar_matrix[i]) = 7
        /\ Len(cells) >= first + N
        /\ \A p \in 1..Len(cells) :
               cells[p] = IF p > first /\ p <= first + N THEN p - first ELSE 0

\* February 2024: day 1 on a Thursday, day 29 on the Thursday four weeks on
C9_Witness ==
    /\ focus_date.year = 2024 /\ focus_date.month = 2
    /\ calendar_matrix[1][4] = 1
    /\ calendar_matrix[5][4] = 29

\* C10: a month of 5 natural weeks gets a 6th row of zeros after its 5 rows,
\* a month of 6 natural weeks is left as it is; in a Month the day numbers
\* are those of the Days in the cells.
C10_SixthRow ==
    LET natural == monthcalendar(focus_date.year, focus_date.month)
        naturalM == monthcalendar(month.year, month.month_num)
        numbers == DayNumbers(month.month_matrix)
    IN  /\ Len(natural) = 5
           => calendar_matrix = natural \o << << 0, 0, 0, 0, 0, 0, 0 >> >>
        /\ Len(natural) = 6 => calendar_matrix = natural
        /\ Len(naturalM) = 5
           => numbers = naturalM \o << << 0, 0, 0, 0, 0, 0, 0 >> >>
        /\ Len(naturalM) = 6 => numbers = naturalM

\* The Controller on a month of 5 weeks, a Month of 6 weeks
C10_Witness ==
    /\ Len(monthcalendar(focus_date.year, focus_date.month)) = 5
    /\ Len(calendar_matrix) = 6
    /\ Len(monthcalendar(month.year, month.month_num)) = 6
    /\ Len(month.month_matrix) = 6

---------------------------------------------------------------------------
(* Properties of the entities and the controller *)

\* "<Month name> <day>, <year>", the day without zero padding
Display(date) ==
    << month_name[date.month], " " >>
    \o (IF date.day < 10 THEN << DigitChar(date.day) >>
        ELSE << DigitChar(date.day \div 10), DigitChar(date.day % 10) >>)
    \o << ",", " " >>
    \o << DigitChar(date.year \div 1000), DigitChar((date.year \div 100) % 10),
          DigitChar((date.year \div 10) % 10), DigitChar(date.year % 10) >>

\* The Days in the cells of the Month
DaysOf(m) ==
    {m.month_matrix[i][j] :
        i \in 1..Len(m.month_matrix), j \in 1..7} \ {Int0}

\* C13: the display string of every Day and of the focus date is
\* "<Month name> <day>, <year>" with the day unpadded, so a Day and the
\* Controller give the same string for the same date.
C13_DisplayString ==
    /\ get_focus_date_str(focus_date) = Display(focus_date)
    /\ \A d \in DaysOf(month) :
          /\ d.date_string = Display(d.date)
          /\ d.date_string = get_focus_date_str(d.date)

\* The cells of the Month m against the calendar matrix of its month
CellsOf(m) ==
    LET matrix == build_calendar_matrix(Date(m.year, m.month_num, 1))
    IN  /\ Len(m.month_matrix) = Len(matrix)
        /\ \A i \in 1..Len(matrix) :
              /\ Len(m.month_matrix[i]) = 7
              /\ \A j \in 1..7 :
                    IF matrix[i][j] = 0
                    THEN m.month_matrix[i][j] = Int0
                    ELSE /\ m.month_matrix[i][j].date
                              = Date(m.year, m.month_num, matrix[i][j])
                         /\ m.month_matrix[i][j].entry = << >>

\* C15: in the grid of a Month every cell that is non-zero in the calendar
\* matrix holds a Day of that year, month and day number with an empty entry,
\* every zero cell is the empty marker, and constructing the Month neither
\* reads nor writes the entry store.
C15_MonthCells ==
    /\ []CellsOf(month)
    /\ [][month' # month => UNCHANGED storeVars]_vars

\* February 2024 begins on a Thursday
C15_Witness ==
    /\ month.month_num = 2 /\ month.year = 2020 + 4
    /\ month.month_matrix[1][3] = Int0
    /\ month.month_matrix[1][4].date = Date(2020 + 4, 2, 1)
    /\ month.month_matrix[5][4].date = Date(2020 + 4, 2, 29)
    /\ month.month_matrix[5][4].entry = << >>
    /\ month.month_matrix[6] = [j \in 1..7 |-> Int0]

\* C17: after construction and after any set_focus_date_and_month(date)
\* calls, get_focus_date() is the date of the most recent call and
\* calendar_matrix is the matrix of that date's year and month, never the
\* matrix of another month.
C17_FocusInvariant ==
    /\ focus_call.given => get_focus_date = focus_call.date
    /\ calendar_matrix
          = build_calendar_matrix(Date(get_focus_date.year, get_focus_date.month, 1))
    /\ SelectSeq(Flatten(calendar_matrix), LAMBDA n : n # 0)
          = [k \in 1..GregorianDays(get_focus_date.year, get_focus_date.month) |-> k]
    /\ calendar_matrix[1][ZellerFirstWeekday(get_focus_date.year,
                                             get_focus_date.month) + 1] = 1

\* The focus moved from a month of 31 days to February 2024 by a call
C17_Witness ==
    /\ focus_call = FocusCall(TRUE, Date(2020 + 4, 2, 29), NoDate)
    /\ get_focus_date = Date(2020 + 4, 2, 29)
    /\ calendar_matrix[1] = << 0, 0, 0, 1, 2, 3, 4 >>
    /\ calendar_matrix[5] = << 26, 27, 28, 29, 0, 0, 0 >>

\* C18: after a call of set_focus_date_and_month without a date the focus
\* date is the day of that call, also when the day has changed since the
\* controller module was loaded.
C18_DefaultIsToday ==
    ~focus_call.given => focus_date = focus_call.at

====
